---- MODULE Spec2Model ----
(***************************************************************************)
(* Model of src/code.py: one Streamlit session of the Gemini code          *)
(* assistant.  A script run is triggered by one widget interaction and     *)
(* executes the page top to bottom: the action-mode radio, the form of the *)
(* chosen mode (generate / explain), the snippet list with its checkboxes  *)
(* and download button, then the chat column.  A run that calls the        *)
(* gateway is modelled in two steps around the blocking call: the part     *)
(* before it (..Submit) and the part after it (..Respond).                 *)
(*                                                                         *)
(* Text is a sequence of tokens: "FENCE" is one triple-backtick fence      *)
(* marker, "\n" a line break, "a" a letter, "1" a digit, "#" a character   *)
(* that the hint test of the chat flow rejects; every other token is an    *)
(* opaque run of characters that is neither a marker nor white space.      *)
(* The wall clock is read in ticks of its resolution and has moved on      *)
(* whenever a gateway call returns.                                        *)
(***************************************************************************)
EXTENDS Naturals, Sequences, FiniteSets, TLC

VARIABLES
    action_mode,                     \* value of the radio "Select Action:"
    chat_history,                    \* AppState.chat_history
    generated_codes,                 \* AppState.generated_codes
    selected_code_ids_for_download,  \* AppState.selected_code_ids_for_download, in insertion order
    cb,                              \* widget state of the checkboxes, keyed by snippet id
    selected_to_download,            \* the list the last page render computed
    zip_bytes,                       \* the archive behind the download button: <<>> or <<archive>>
    now,                             \* the wall clock, in ticks of its resolution
    pc,                              \* "Idle" or "AwaitingAIResponse"
    inflight,                        \* the gateway requests not yet answered
    turn                             \* what the current (or last) user turn did

vars == <<action_mode, chat_history, generated_codes, selected_code_ids_for_download,
          cb, selected_to_download, zip_bytes, now, pc, inflight, turn>>

----------------------------------------------------------------------------
(* Bounds *)

MaxTurns == 2
MaxLen == 4
TicksPerSecond == 2

----------------------------------------------------------------------------
(* Text *)

Fence == "FENCE"
NL == "\n"
Whitespace == {NL, " "}
HintForbidden == {" ", ":", ";", "{", "(", "#"}
Alphabet == {Fence, NL, "a", "1", "#"}

RECURSIVE AllTexts(_)
AllTexts(n) ==
    IF n = 0 THEN {<<>>}
    ELSE LET shorter == AllTexts(n - 1)
         IN shorter \cup {Append(t, c) : t \in {s \in shorter : Len(s) = n - 1}, c \in Alphabet}

Contains(s, tok) == \E i \in 1..Len(s) : s[i] = tok

IndexOf(s, tok) ==
    IF Contains(s, tok) THEN CHOOSE i \in 1..Len(s) : s[i] = tok /\ \A j \in 1..(i - 1) : s[j] # tok
    ELSE 0

RECURSIVE Split(_, _)
Split(s, tok) ==
    LET i == IndexOf(s, tok)
    IN IF i = 0 THEN <<s>>
       ELSE <<SubSeq(s, 1, i - 1)>> \o Split(SubSeq(s, i + 1, Len(s)), tok)

Partition(s, tok) ==
    LET i == IndexOf(s, tok)
    IN IF i = 0 THEN [before |-> s, after |-> <<>>]
       ELSE [before |-> SubSeq(s, 1, i - 1), after |-> SubSeq(s, i + 1, Len(s))]

RECURSIVE LStrip(_)
LStrip(s) == IF s # <<>> /\ Head(s) \in Whitespace THEN LStrip(Tail(s)) ELSE s

RECURSIVE RStrip(_)
RStrip(s) ==
    IF s # <<>> /\ s[Len(s)] \in Whitespace THEN RStrip(SubSeq(s, 1, Len(s) - 1)) ELSE s

Strip(s) == RStrip(LStrip(s))

IsAlpha(s) == s # <<>> /\ \A i \in 1..Len(s) : s[i] \in {"a", "A"}

Lower(s) == [i \in 1..Len(s) |-> IF s[i] = "A" THEN "a" ELSE s[i]]

RECURSIVE Join(_)
Join(parts) == IF parts = <<>> THEN <<>> ELSE Head(parts) \o Join(Tail(parts))

RECURSIVE JoinLines(_)
JoinLines(texts) ==
    IF texts = <<>> THEN <<>>
    ELSE IF Len(texts) = 1 THEN Head(texts)
    ELSE Head(texts) \o <<NL>> \o JoinLines(Tail(texts))

----------------------------------------------------------------------------
(* The AI gateway *)

\* A response object of the client library: whether the call raised, its
\* text ("" when absent), the texts of its parts, the texts of its candidates.
Response(raises, text, parts, candidates) ==
    [raises |-> raises, text |-> text, parts |-> parts, candidates |-> candidates]

UnexpectedFormatText == <<"Sorry, I couldn't process that. The response format was unexpected.">>

Responses(texts) ==
    {Response(TRUE, <<>>, <<>>, <<>>)}
    \cup {Response(FALSE, t, <<>>, <<>>) : t \in texts \ {<<>>}}
    \cup {Response(FALSE, <<>>, ps, <<>>) : ps \in {<< <<>> >>, << <<"a">>, <<"#">> >>}}
    \cup {Response(FALSE, <<>>, <<>>, cs) : cs \in {<< <<>> >>, << <<"a">>, <<>>, <<"#">> >>}}
    \cup {Response(FALSE, <<>>, <<>>, <<>>)}

\* None is [none |-> TRUE]; a returned string is [none |-> FALSE, text |-> ..].
Returned(text) == [none |-> FALSE, text |-> text]
None == [none |-> TRUE, text |-> <<>>]

send_gemini_message(response) ==
    IF response.raises THEN None
    ELSE IF response.text # <<>> THEN Returned(response.text)
    ELSE IF response.parts # <<>> THEN Returned(Join(response.parts))
    ELSE LET candidate_texts == SelectSeq(response.candidates, LAMBDA ct : ct # <<>>)
         IN IF candidate_texts # <<>> THEN Returned(JoinLines(candidate_texts))
            ELSE Returned(UnexpectedFormatText)

\* Python truth of the returned value: neither None nor "".
Truthy(result) == ~result.none /\ result.text # <<>>

----------------------------------------------------------------------------
(* Records *)

\* The wall clock when read after a gateway round trip: later than before it.
Clock(before) == before + 1

\* NewId with the clock read once, when the class is defined, instead of
\* at every creation (a default value in place of the default_factory).
NewIdAtImport(clock) == <<"code_", 0>>

NewId(clock) == <<"code_", clock>>

CodeSnippet(clock, filename, language, content, description) ==
    [id |-> NewId(clock), filename |-> filename, language |-> language,
     content |-> content, description |-> description]

ChatMessage(role, parts) == [role |-> role, parts |-> parts]

UserPrompt == <<"user prompt">>
ApologyText == <<"Sorry, I encountered an issue.">>
FileNames == {<<"generated_script.py">>, <<"quicksort.py">>}
Languages == {<<"python">>}
Modes == {"Generate Code", "Explain Code", "Correct Code (via Chat)"}
CorrectMode == "Correct Code (via Chat)"

----------------------------------------------------------------------------
(* A Python dict: its items in insertion order *)

DictHas(d, k) == \E i \in 1..Len(d) : d[i].key = k

DictGet(d, k, default) ==
    IF DictHas(d, k) THEN d[CHOOSE i \in 1..Len(d) : d[i].key = k].val ELSE default

DictSet(d, k, v) ==
    IF DictHas(d, k) THEN [i \in 1..Len(d) |-> IF d[i].key = k THEN [key |-> k, val |-> v] ELSE d[i]]
    ELSE Append(d, [key |-> k, val |-> v])

RECURSIVE DictUpdate(_, _)
DictUpdate(d, items) ==
    IF items = <<>> THEN d
    ELSE DictUpdate(DictSet(d, Head(items).key, Head(items).val), Tail(items))

----------------------------------------------------------------------------
(* Extraction of code from a response *)

\* Generate flow: the segment after the first fence marker, its first line
\* dropped when that line is alphabetic; the whole text when there is no marker.
GenerateExtract(generated_content) ==
    IF Contains(generated_content, Fence)
    THEN LET code_block_content == Split(generated_content, Fence)[2]
             parts == Partition(code_block_content, NL)
             first_line == Strip(parts.before)
             code_to_store ==
                 IF Contains(code_block_content, NL)
                 THEN IF IsAlpha(first_line) /\ Head(first_line) \notin {"#", "//", "/*"}
                      THEN parts.after
                      ELSE code_block_content
                 ELSE code_block_content
         IN Strip(code_to_store)
    ELSE Strip(generated_content)

\* CorrectBlock without trimming the content.
CorrectBlockUntrimmed(block_content_with_lang, extracted_language) ==
    LET parts == Partition(block_content_with_lang, NL)
        lang_hint == Lower(Strip(parts.before))
    IN IF Contains(block_content_with_lang, NL)
       THEN IF lang_hint # <<>> /\ \A i \in 1..Len(lang_hint) : lang_hint[i] \notin HintForbidden
            THEN [content |-> parts.after, language |-> lang_hint]
            ELSE [content |-> block_content_with_lang, language |-> extracted_language]
       ELSE [content |-> block_content_with_lang, language |-> extracted_language]

\* One iteration of the chat flow's loop over a fenced segment.
CorrectBlock(block_content_with_lang, extracted_language) ==
    LET parts == Partition(block_content_with_lang, NL)
        lang_hint == Lower(Strip(parts.before))
    IN IF Contains(block_content_with_lang, NL)
       THEN IF lang_hint # <<>> /\ \A i \in 1..Len(lang_hint) : lang_hint[i] \notin HintForbidden
            THEN [content |-> Strip(parts.after), language |-> lang_hint]
            ELSE [content |-> Strip(block_content_with_lang), language |-> extracted_language]
       ELSE [content |-> Strip(block_content_with_lang), language |-> extracted_language]

\* for i in range(1, len(potential_code_blocks), 2), leaving at the first
\* non-empty content; i counts from 1 here, so the segments are 2, 4, ...
RECURSIVE CorrectLoop(_, _, _)
CorrectLoop(potential_code_blocks, i, extracted_language) ==
    LET found == CorrectBlock(potential_code_blocks[i], extracted_language)
    IN IF found.content # <<>> \/ i + 2 > Len(potential_code_blocks) THEN found
       ELSE CorrectLoop(potential_code_blocks, i + 2, found.language)

CorrectExtract(ai_response_text) ==
    CorrectLoop(Split(ai_response_text, Fence), 2, <<"python">>)

\* strftime('%H%M%S'): the clock reading cut to whole seconds.
HHMMSS(clock) == clock \div TicksPerSecond

CorrectedFilename(clock, extracted_language) ==
    <<"corrected_", ToString(HHMMSS(clock)), ".", "['">> \o extracted_language \o <<"']">>

----------------------------------------------------------------------------
(* The archive *)

Utf8(content) == [i \in 1..Len(content) |-> <<"byte", content[i]>>]

\* create_zip_file keeping one entry per name, a later one replacing an earlier.
RECURSIVE create_zip_file_by_name(_)
create_zip_file_by_name(code_snippets) ==
    IF code_snippets = <<>> THEN <<>>
    ELSE LET last == code_snippets[Len(code_snippets)]
             earlier == SelectSeq(SubSeq(code_snippets, 1, Len(code_snippets) - 1),
                                  LAMBDA s : s.filename # last.filename)
         IN create_zip_file_by_name(earlier)
            \o <<[name |-> last.filename, data |-> Utf8(last.content)]>>

RECURSIVE create_zip_file(_)
create_zip_file(code_snippets) ==
    IF code_snippets = <<>> THEN <<>>
    ELSE <<[name |-> Head(code_snippets).filename, data |-> Utf8(Head(code_snippets).content)]>>
         \o create_zip_file(Tail(code_snippets))

----------------------------------------------------------------------------
(* The snippet list of the page: checkboxes, selection update, download *)

\* st.checkbox(value=..., key=...): the widget's own state once it exists,
\* the value argument the first time it is drawn.
Checkbox(widgets, value, key) == DictGet(widgets, key, value)

TempSelections(codes, selected, widgets) ==
    [i \in 1..Len(codes) |->
        [key |-> codes[i].id,
         val |-> Checkbox(widgets, DictGet(selected, codes[i].id, FALSE), codes[i].id)]]

\* SelectedToDownload without the test of the flag.
SelectedToDownloadUnfiltered(codes, selected) == codes

SelectedToDownload(codes, selected) ==
    SelectSeq(codes, LAMBDA s : DictGet(selected, s.id, FALSE))

DownloadButton(to_download) ==
    IF to_download # <<>> THEN <<create_zip_file(to_download)>> ELSE <<>>

\* What drawing the list leaves behind: the selection map, the widget
\* states, the list offered for download and the archive behind the button.
SnippetList(codes, selected, widgets) ==
    IF codes = <<>>
    THEN [selected |-> selected, widgets |-> <<>>, to_download |-> <<>>, zip |-> <<>>]
    ELSE LET temp_selections == TempSelections(codes, selected, widgets)
             updated == DictUpdate(selected, temp_selections)
             to_download == SelectedToDownload(codes, updated)
         IN [selected |-> updated, widgets |-> temp_selections,
             to_download |-> to_download, zip |-> DownloadButton(to_download)]

----------------------------------------------------------------------------
(* Context of a chat turn *)

\* [s for s_id, is_sel in ....items() if is_sel]: the element expression
\* names s, which is bound nowhere, so evaluating it for an item raises
\* NameError; with no true item the list is empty and nothing is evaluated.
SelectedForChatCorrection(selected) ==
    [name_error |-> \E i \in 1..Len(selected) : selected[i].val, list |-> <<>>]

PlainPrompt == [kind |-> "plain", code |-> <<>>]
CodePrompt(snippet) == [kind |-> "with_code", code |-> <<snippet>>]
NoContextPrompt == [kind |-> "no_context", code |-> <<>>]

\* next((s for s in generated_codes if s.id == wanted), None), as <<>> or <<s>>.
FindById(codes, wanted) ==
    LET hits == SelectSeq(codes, LAMBDA s : s.id = wanted)
    IN IF hits = <<>> THEN <<>> ELSE <<Head(hits)>>

\* [raised |-> TRUE] when preparing the prompt raised, else the prompt.
ContextualPrompt(codes, selected, mode) ==
    IF codes # <<>> /\ mode = CorrectMode
    THEN LET selected_for_chat_correction == SelectedForChatCorrection(selected)
             chosen == selected_for_chat_correction.list
             latest_code_to_discuss ==
                 IF chosen # <<>> THEN FindById(codes, chosen[Len(chosen)])
                 ELSE IF codes # <<>> THEN <<codes[Len(codes)]>>
                 ELSE <<>>
         IN IF selected_for_chat_correction.name_error
            THEN [raised |-> TRUE, prompt |-> PlainPrompt]
            ELSE IF latest_code_to_discuss # <<>>
                 THEN [raised |-> FALSE, prompt |-> CodePrompt(Head(latest_code_to_discuss))]
                 ELSE [raised |-> FALSE, prompt |-> NoContextPrompt]
    ELSE [raised |-> FALSE, prompt |-> PlainPrompt]

----------------------------------------------------------------------------
(* The session *)

Turn(n, flow, mode, outcome, text) ==
    [n |-> n, flow |-> flow, mode |-> mode, outcome |-> outcome, text |-> text]

Init ==
    /\ action_mode = "Generate Code"
    /\ chat_history = <<>>
    /\ generated_codes = <<>>
    /\ selected_code_ids_for_download = <<>>
    /\ cb = <<>>
    /\ selected_to_download = <<>>
    /\ zip_bytes = <<>>
    /\ now = 0
    /\ pc = "Idle"
    /\ inflight = <<>>
    /\ turn = Turn(0, "none", "Generate Code", "none", <<>>)

\* The snippet list is drawn with the given store and widget states.
Draw(codes, selected, widgets) ==
    LET page == SnippetList(codes, selected, widgets)
    IN /\ selected_code_ids_for_download' = page.selected
       /\ cb' = page.widgets
       /\ selected_to_download' = page.to_download
       /\ zip_bytes' = page.zip

\* The radio is set to another mode; the page is drawn again.
SelectActionMode(mode) ==
    /\ pc = "Idle"
    /\ mode # action_mode
    /\ action_mode' = mode
    /\ Draw(generated_codes, selected_code_ids_for_download, cb)
    /\ UNCHANGED <<chat_history, generated_codes, now, pc, inflight, turn>>

\* A checkbox on the page is clicked; the page is drawn again.
ToggleCheckbox(i) ==
    /\ pc = "Idle"
    /\ DictHas(cb, generated_codes[i].id)
    /\ LET key == generated_codes[i].id
       IN Draw(generated_codes, selected_code_ids_for_download,
               DictSet(cb, key, ~DictGet(cb, key, FALSE)))
    /\ UNCHANGED <<action_mode, chat_history, generated_codes, now, pc, inflight, turn>>

\* The download button is clicked; the page is drawn again.
DownloadClick ==
    /\ pc = "Idle"
    /\ zip_bytes # <<>>
    /\ Draw(generated_codes, selected_code_ids_for_download, cb)
    /\ UNCHANGED <<action_mode, chat_history, generated_codes, now, pc, inflight, turn>>

\* Call sending the request both as a chat message and as a single turn.
CallTwice(request) ==
    /\ pc' = "AwaitingAIResponse"
    /\ inflight' = Append(Append(inflight, request), request)

\* The gateway call of a flow is issued.
Call(request) ==
    /\ pc' = "AwaitingAIResponse"
    /\ inflight' = Append(inflight, request)

\* The run of a flow is blocked in its gateway call.
Awaiting(flow) ==
    /\ pc = "AwaitingAIResponse"
    /\ inflight # <<>>
    /\ Head(inflight).flow = flow

\* The call has returned and the run ends.
Return ==
    /\ pc' = "Idle"
    /\ inflight' = Tail(inflight)

\* The generate form is submitted with a prompt: up to the gateway call.
GenerateSubmit(limit, filename_gen, language_gen) ==
    /\ pc = "Idle"
    /\ action_mode = "Generate Code"
    /\ turn.n < limit
    /\ Call([flow |-> "generate", filename |-> filename_gen, language |-> language_gen,
             prompt |-> PlainPrompt])
    /\ turn' = Turn(turn.n + 1, "generate", action_mode, "pending", <<>>)
    /\ UNCHANGED <<action_mode, chat_history, generated_codes, selected_code_ids_for_download,
                   cb, selected_to_download, zip_bytes, now>>

\* The generate flow after the call, then the snippet list.
GenerateRespond(response) ==
    /\ Awaiting("generate")
    /\ LET generated_content == send_gemini_message(response)
           request == Head(inflight)
           snippet == CodeSnippet(Clock(now), request.filename, request.language,
                                  GenerateExtract(generated_content.text),
                                  "Generated from prompt")
       IN IF Truthy(generated_content)
          THEN /\ generated_codes' = Append(generated_codes, snippet)
               /\ Draw(generated_codes',
                       DictSet(selected_code_ids_for_download, snippet.id, TRUE), cb)
               /\ turn' = [turn EXCEPT !.outcome = "ok",
                                       !.text = generated_content.text]
          ELSE /\ generated_codes' = generated_codes
               /\ Draw(generated_codes, selected_code_ids_for_download, cb)
               /\ turn' = [turn EXCEPT !.outcome = "failed"]
    /\ now' = Clock(now)
    /\ Return
    /\ UNCHANGED <<action_mode, chat_history>>

\* The explain form is submitted with code: up to the gateway call.
ExplainSubmit(limit) ==
    /\ pc = "Idle"
    /\ action_mode = "Explain Code"
    /\ turn.n < limit
    /\ Call([flow |-> "explain", filename |-> <<>>, language |-> <<>>, prompt |-> PlainPrompt])
    /\ turn' = Turn(turn.n + 1, "explain", action_mode, "pending", <<>>)
    /\ UNCHANGED <<action_mode, chat_history, generated_codes, selected_code_ids_for_download,
                   cb, selected_to_download, zip_bytes, now>>

\* The explain flow after the call: current_explanation is set, shown and
\* cleared again within the run, then the snippet list is drawn.
ExplainRespond(response) ==
    /\ Awaiting("explain")
    /\ LET explanation == send_gemini_message(response)
       IN turn' = [turn EXCEPT !.outcome = IF Truthy(explanation) THEN "ok" ELSE "failed",
                               !.text = explanation.text]
    /\ Draw(generated_codes, selected_code_ids_for_download, cb)
    /\ now' = Clock(now)
    /\ Return
    /\ UNCHANGED <<action_mode, chat_history, generated_codes>>

\* ModelEntry logging nothing when the call failed.
ModelEntrySilent(ai_response_text) ==
    IF Truthy(ai_response_text) THEN <<ChatMessage("model", <<ai_response_text.text>>)>>
    ELSE <<>>

\* The entry the chat turn logs for the gateway's answer.
ModelEntry(ai_response_text) ==
    IF Truthy(ai_response_text) THEN <<ChatMessage("model", <<ai_response_text.text>>)>>
    ELSE <<ChatMessage("model", <<ApologyText>>)>>

\* A chat message is sent: the left column is drawn, the user message is
\* logged and the prompt prepared; preparing it may raise, which ends the run.
ChatSubmit(limit) ==
    /\ pc = "Idle"
    /\ turn.n < limit
    /\ Draw(generated_codes, selected_code_ids_for_download, cb)
    /\ chat_history' = Append(chat_history, ChatMessage("user", <<UserPrompt>>))
    /\ LET contextual_prompt ==
               ContextualPrompt(generated_codes, selected_code_ids_for_download', action_mode)
       IN IF contextual_prompt.raised
          THEN /\ turn' = Turn(turn.n + 1, "chat", action_mode, "fault", <<>>)
               /\ UNCHANGED <<pc, inflight>>
          ELSE /\ turn' = Turn(turn.n + 1, "chat", action_mode, "pending", <<>>)
               /\ Call([flow |-> "chat", filename |-> <<>>, language |-> <<>>,
                        prompt |-> contextual_prompt.prompt])
    /\ UNCHANGED <<action_mode, generated_codes, now>>

\* The chat turn after the call: the model message or the apology, and in
\* correct mode the extraction of a corrected snippet.
ChatRespond(response) ==
    /\ Awaiting("chat")
    /\ LET ai_response_text == send_gemini_message(response)
           extracted == CorrectExtract(ai_response_text.text)
           corrected_snippet ==
               CodeSnippet(Clock(now), CorrectedFilename(Clock(now), extracted.language),
                           extracted.language, extracted.content, "Corrected/refined via chat")
       IN IF Truthy(ai_response_text)
          THEN /\ chat_history' = chat_history \o ModelEntry(ai_response_text)
               /\ turn' = [turn EXCEPT !.outcome = "ok",
                                       !.text = ai_response_text.text]
               /\ IF /\ Contains(ai_response_text.text, Fence)
                     /\ action_mode = CorrectMode
                     /\ extracted.content # <<>>
                  THEN /\ generated_codes' = Append(generated_codes, corrected_snippet)
                       /\ selected_code_ids_for_download' =
                              DictSet(selected_code_ids_for_download, corrected_snippet.id, TRUE)
                  ELSE UNCHANGED <<generated_codes, selected_code_ids_for_download>>
          ELSE /\ chat_history' = chat_history \o ModelEntry(ai_response_text)
               /\ turn' = [turn EXCEPT !.outcome = "failed"]
               /\ UNCHANGED <<generated_codes, selected_code_ids_for_download>>
    /\ now' = Clock(now)
    /\ Return
    /\ UNCHANGED <<action_mode, cb, selected_to_download, zip_bytes>>

----------------------------------------------------------------------------
(* Specifications *)

\* The response texts of a session.
SessionTexts ==
    { <<"a">>,
      <<Fence, "a", NL, "#", Fence>>,
      <<Fence, Fence, Fence, "#", Fence>>,
      <<Fence, Fence>> }

SessionResponses == Responses(SessionTexts)

Next ==
    \/ \E mode \in Modes : SelectActionMode(mode)
    \/ \E i \in 1..Len(generated_codes) : ToggleCheckbox(i)
    \/ DownloadClick
    \/ \E f \in FileNames, l \in Languages : GenerateSubmit(MaxTurns, f, l)
    \/ Awaiting("generate") /\ \E r \in SessionResponses : GenerateRespond(r)
    \/ ExplainSubmit(MaxTurns)
    \/ Awaiting("explain") /\ \E r \in SessionResponses : ExplainRespond(r)
    \/ ChatSubmit(MaxTurns)
    \/ Awaiting("chat") /\ \E r \in SessionResponses : ChatRespond(r)

Spec == Init /\ [][Next]_vars

\* One user turn from the initial session, over every response text of at
\* most MaxLen tokens.
ParseResponses == Responses(AllTexts(MaxLen))

ParseNext ==
    \/ \E mode \in Modes : SelectActionMode(mode)
    \/ \E i \in 1..Len(generated_codes) : ToggleCheckbox(i)
    \/ DownloadClick
    \/ \E f \in FileNames, l \in Languages : GenerateSubmit(1, f, l)
    \/ Awaiting("generate") /\ \E r \in ParseResponses : GenerateRespond(r)
    \/ ExplainSubmit(1)
    \/ Awaiting("explain") /\ \E r \in ParseResponses : ExplainRespond(r)
    \/ ChatSubmit(1)
    \/ Awaiting("chat") /\ \E r \in ParseResponses : ChatRespond(r)

ParseSpec == Init /\ [][ParseNext]_vars

----------------------------------------------------------------------------
(* Vocabulary of the properties *)

Flag(s) == DictGet(selected_code_ids_for_download, s.id, FALSE)

\* The snippet the last gateway answer created, as <<>> or <<s>>: the clock
\* moves at every answer, so only such a snippet carries the current reading.
NewSnippet ==
    LET n == Len(generated_codes)
    IN IF pc = "Idle" /\ turn.outcome = "ok" /\ n > 0 /\ generated_codes[n].id = NewId(now)
       THEN <<generated_codes[n]>> ELSE <<>>

AnsweredIn(flow) == pc = "Idle" /\ turn.outcome = "ok" /\ turn.flow = flow
AnsweredCorrect == AnsweredIn("chat") /\ turn.mode = CorrectMode

\* The fenced regions of a text: the segments at even positions of its split.
Regions(text) ==
    LET segments == Split(text, Fence)
    IN [k \in 1..(Len(segments) \div 2) |-> segments[2 * k]]

\* A region without its language-hint line (an alphabetic first line), trimmed.
RegionContent(region) ==
    LET nl == IndexOf(region, NL)
    IN IF nl > 0 /\ IsAlpha(Strip(SubSeq(region, 1, nl - 1)))
       THEN Strip(SubSeq(region, nl + 1, Len(region)))
       ELSE Strip(region)

\* The content of the first region that has any, as <<>> or <<content>>.
FirstNonEmptyRegion(text) ==
    LET regions == Regions(text)
        usable == {k \in 1..Len(regions) : RegionContent(regions[k]) # <<>>}
    IN IF usable = {} THEN <<>>
       ELSE <<RegionContent(regions[CHOOSE k \in usable : \A j \in usable : k <= j])>>

\* The k-th smallest element of a set of numbers.
Kth(set, k) == CHOOSE i \in set : Cardinality({j \in set : j <= i}) = k

\* list is the sub-sequence of codes, in order, of the flagged snippets.
IsFlaggedSubsequence(list, codes) ==
    LET flagged == {i \in 1..Len(codes) : Flag(codes[i])}
    IN /\ Len(list) = Cardinality(flagged)
       /\ \A k \in 1..Len(list) : list[k] = codes[Kth(flagged, k)]

\* The snippets the last drawing of the page showed: those with a checkbox.
OnPage == SelectSeq(generated_codes, LAMBDA s : DictHas(cb, s.id))

----------------------------------------------------------------------------
(* Properties *)

\* C1: in a chat turn sent in correct mode the context handed to the gateway
\* is the last selected snippet if any snippet is selected, else the last
\* appended snippet if the store is non-empty, else no code.
C1_ContextByPreference ==
    LET selected == SelectSeq(generated_codes, Flag)
        expected == IF selected # <<>> THEN <<selected[Len(selected)]>>
                    ELSE IF generated_codes # <<>>
                         THEN <<generated_codes[Len(generated_codes)]>>
                         ELSE <<>>
    IN (turn.flow = "chat" /\ turn.mode = CorrectMode /\ turn.outcome \in {"pending", "fault"})
       => (inflight # <<>> /\ Head(inflight).prompt.code = expected)

\* A gateway answer that is no text ends the waiting.
FailedAnswer == pc = "AwaitingAIResponse" /\ pc' = "Idle" /\ turn'.outcome = "failed"

StoreUnchanged ==
    /\ generated_codes' = generated_codes
    /\ selected_code_ids_for_download' = selected_code_ids_for_download

ApologyLogged == chat_history' = Append(chat_history, ChatMessage("model", <<ApologyText>>))

\* C2 as stated: on a failed gateway call of any flow the log gains exactly
\* one entry, the model's apology, and the snippet store is unchanged.
C2_ApologyInEveryFlow == [][FailedAnswer => (ApologyLogged /\ StoreUnchanged)]_vars

\* C2 amended: a failed call of a chat turn adds exactly the apology entry to
\* the log; a failed call of the generate or explain flow leaves the log as
\* it is; in every flow the snippet store is unchanged.
C2_FailedCall ==
    [][FailedAnswer =>
        /\ StoreUnchanged
        /\ IF turn.flow = "chat" THEN ApologyLogged ELSE chat_history' = chat_history]_vars

C2_Witness ==
    /\ pc = "Idle" /\ turn.flow = "chat" /\ turn.outcome = "failed"
    /\ chat_history[Len(chat_history)] = ChatMessage("model", <<ApologyText>>)
    /\ generated_codes # <<>>

\* C3: when the answer of the generate flow or of a chat turn in correct mode
\* has a fenced region with content, the new snippet holds the content of
\* the first such region, trimmed and without its language-hint line.
C3_FirstNonEmptyRegion ==
    ((AnsweredIn("generate") \/ AnsweredCorrect) /\ FirstNonEmptyRegion(turn.text) # <<>>)
    => (NewSnippet # <<>> /\ <<NewSnippet[1].content>> = FirstNonEmptyRegion(turn.text))

IdsDistinct ==
    \A i, j \in 1..Len(generated_codes) :
        i # j => generated_codes[i].id # generated_codes[j].id

\* C4: the snippets of the store have pairwise distinct ids, and a snippet
\* that is appended has its selection flag set when the step ends.
C4_UniqueIdsSelected ==
    /\ []IdsDistinct
    /\ [][Len(generated_codes') > Len(generated_codes) =>
            DictGet(selected_code_ids_for_download',
                    generated_codes'[Len(generated_codes')].id, FALSE)]_vars

C4_Witness ==
    /\ Len(generated_codes) = 2
    /\ generated_codes[1].description = "Corrected/refined via chat"
    /\ generated_codes[2].description = "Generated from prompt"
    /\ Flag(generated_codes[1]) /\ Flag(generated_codes[2])

\* C5 as stated: the list offered for download is the sub-sequence of the
\* store whose flag is set, in append order.
C5_OfferedFromStore == IsFlaggedSubsequence(selected_to_download, generated_codes)

\* C5 amended: the list offered for download is the sub-sequence, in append
\* order, of the snippets on the page whose flag is set; the page shows the
\* whole store except a snippet the chat turn just ended has appended.
C5_OfferedFromPage ==
    /\ IsFlaggedSubsequence(selected_to_download, OnPage)
    /\ \/ OnPage = generated_codes
       \/ turn.flow = "chat" /\ NewSnippet # <<>> /\ generated_codes = OnPage \o NewSnippet

C5_Witness ==
    /\ Len(generated_codes) = 2
    /\ ~Flag(generated_codes[1])
    /\ selected_to_download = <<generated_codes[2]>>

\* C6: the archive behind the download button has one entry per offered
\* snippet, in order, named by its filename and holding its content, also
\* under equal filenames; no archive is built for an empty selection.
C6_ArchiveEntries ==
    /\ zip_bytes = <<>> <=> selected_to_download = <<>>
    /\ zip_bytes # <<>> =>
        LET archive == zip_bytes[1]
        IN /\ Len(archive) = Len(selected_to_download)
           /\ \A i \in 1..Len(archive) :
                 /\ archive[i].name = selected_to_download[i].filename
                 /\ archive[i].data = Utf8(selected_to_download[i].content)

C6_Witness ==
    /\ zip_bytes # <<>>
    /\ Len(zip_bytes[1]) = 2
    /\ zip_bytes[1][1].name = zip_bytes[1][2].name
    /\ zip_bytes[1][1].data # zip_bytes[1][2].data

\* C7: no user turn ends in an uncaught fault.
C7_NoUncaughtFault == turn.outcome # "fault"

\* C8: a response object without usable text, parts or candidate text
\* creates no snippet.
C8_MalformedNoSnippet ==
    (pc = "Idle" /\ turn.text = UnexpectedFormatText) => NewSnippet = <<>>

\* C9 as stated: an answer of the generate flow or of a chat turn in correct
\* mode that has no fenced region with content appends no snippet.
C9_NoSnippetWithoutCode ==
    ((AnsweredIn("generate") \/ AnsweredCorrect) /\ FirstNonEmptyRegion(turn.text) = <<>>)
    => NewSnippet = <<>>

\* C9 amended: an answer of a chat turn in correct mode that has no fenced
\* region with content is logged as the model's message and appends no
\* snippet; every answer of the generate flow appends a snippet, whose
\* content is the whole trimmed text when the text has no fence marker.
C9_NoUsableFence ==
    /\ (AnsweredCorrect /\ FirstNonEmptyRegion(turn.text) = <<>>) =>
          /\ NewSnippet = <<>>
          /\ chat_history[Len(chat_history)] = ChatMessage("model", <<turn.text>>)
    /\ AnsweredIn("generate") =>
          /\ NewSnippet # <<>>
          /\ ~Contains(turn.text, Fence) => NewSnippet[1].content = Strip(turn.text)

C9_Witness ==
    /\ AnsweredCorrect
    /\ Contains(turn.text, Fence)
    /\ FirstNonEmptyRegion(turn.text) = <<>>
    /\ generated_codes = <<>>

\* C10: the session is Idle or awaits one answer; an accepted action issues
\* at most one gateway call, nothing is accepted while the call is out, and
\* the answer, failed or not, returns the session to Idle with no call out.
C10_OneCallPerTurn ==
    /\ [](/\ pc \in {"Idle", "AwaitingAIResponse"}
          /\ Len(inflight) <= 1
          /\ pc = "Idle" <=> inflight = <<>>)
    /\ [][/\ pc = "AwaitingAIResponse" => (pc' = "Idle" /\ turn'.n = turn.n)
          /\ turn'.n # turn.n => (pc = "Idle" /\ turn'.n = turn.n + 1)]_vars

C10_Witness ==
    /\ pc = "AwaitingAIResponse"
    /\ turn.n = 2
    /\ Len(inflight) = 1
    /\ chat_history # <<>>
    /\ chat_history[Len(chat_history)] = ChatMessage("model", <<ApologyText>>)

\* The roles of a log alternate, the first entry being the user's.
Alternates(log) ==
    \A i \in 1..Len(log) : log[i].role = IF i % 2 = 1 THEN "user" ELSE "model"

\* C11: whenever the session is Idle the conversation log is a strict
\* alternation of user and model messages that starts with a user message,
\* every chat turn having added one user entry followed by one model entry.
C11_LogAlternates ==
    pc = "Idle" => (Alternates(chat_history) /\ Len(chat_history) % 2 = 0)

====
